---- MODULE Spec2Model ----
(***************************************************************************)
(* A model of the population engine of neat-rs (src/src/population.rs,     *)
(* src/src/prob.rs): typed populations (Unrated / Rated / RatedSorted),    *)
(* niches, partition, proportional reproduction and the Runner loop.       *)
(*                                                                         *)
(* f64 quantities (fitness means, shares, fractions, random draws) are     *)
(* modelled as exact rationals <<n, d>> with d > 0; genomes, fitness       *)
(* values, distances and thresholds are small integers.                    *)
(***************************************************************************)
EXTENDS Integers, Sequences, FiniteSets, TLC

\* ------------------------------------------------------------------ bounds

\* largest initial population handed to the library client
MaxPop == 3
\* most generations Runner::run is followed for: every goal predicate of the
\* model holds from this generation on
MaxGen == 1

\* the largest numerator and denominator of an argument of probabilistic_round
\* tried outside reproduce_into
MaxNum == 6

\* the genomes (opaque to the engine; integers so that a distance exists)
Genomes == {0, 1, 2}

\* the genomes Mate::mate may return
Offspring == {0, 2}

\* fitness evaluators F: Fn(&T) -> Fitness the caller may supply
Evaluators ==
    { [g \in Genomes |-> 0],
      [g \in Genomes |-> g],
      [g \in Genomes |-> g - 1] }

\* Distance<T> implementations the caller may supply, by name
DistanceFns == {"abs", "table", "first"}

\* compatibility thresholds the caller may supply
Thresholds == {0, 1, 2, 3}

\* target population sizes (new_pop_size) the caller may supply
Targets == {0, 1, 2}

\* ------------------------------------------------------- rationals (f64)

Abs(x) == IF x < 0 THEN -x ELSE x

RECURSIVE Gcd(_, _)
Gcd(a, b) == IF b = 0 THEN a ELSE Gcd(b, a % b)

\* n / d in lowest terms, d > 0
Lowest(n, d) ==
    LET g == Gcd(Abs(n), Abs(d))
        s == IF d < 0 THEN -1 ELSE 1
    IN  << (s * n) \div g, (s * d) \div g >>

\* the rational n / d; n and d are evaluated once
Rat(n, d) == CHOOSE r \in { Lowest(nv, dv) : nv \in {n}, dv \in {d} } : TRUE

RInt(k) == << k, 1 >>
RMul(x, y) == Rat(x[1] * y[1], x[2] * y[2])
RAdd(x, y) == Rat(x[1] * y[2] + y[1] * x[2], x[2] * y[2])
RLess(x, y) == x[1] * y[2] < y[1] * x[2]
RLeq(x, y) == x[1] * y[2] <= y[1] * x[2]
\* x / y, y # 0
RDiv(x, y) == Rat(x[1] * y[2], x[2] * y[1])
\* f64::trunc and f64::fract of a non-negative value
Trunc(x) == x[1] \div x[2]
Fract(x) == Rat(x[1] % x[2], x[2])
\* Closed01::inv
Inv(x) == Rat(x[2] - x[1], x[2])

\* --------------------------------------------------------------- state

VARIABLES
    pc,                 \* where the caller is
    fitness,            \* the evaluator F in use
    unrated,            \* a Population<T, Unrated> (its individuals)
    rate_todo,          \* indices of `unrated` a running rate_* has not visited
    rated,              \* a Population<T, Rated>
    part_iter,          \* partition: self.individuals.into_iter(), the rest
    threshold,          \* partition: compatibility_threshold
    compatibility,      \* partition: the Distance in use
    niches,             \* Niches.niches
    total_individuals,  \* Niches.total_individuals
    last_find,          \* the latest find_first_matching_niche call
    pop_size,           \* reproduce_global: new_pop_size (Runner.pop_size)
    elite_percentage,   \* reproduce / reproduce_global: elite_percentage
    selection_percentage, \* reproduce / reproduce_global: selection_percentage
    rg,                 \* reproduce_global: its locals
    ri,                 \* reproduce_into: its locals
    new_rated_population,   \* the Rated population being filled with elites
    new_unrated_population, \* the Unrated population being filled with offspring
    next_id,            \* the name of the next individual created
    last_mate,          \* the latest call of mate.mate
    initial_pop,        \* the Unrated population the caller built
    partition_self,     \* partition: the population it was called on
    goal,               \* Runner::run: the goal_condition G in use
    run,                \* Runner::run: its locals, and what it has done
    panic               \* the assertion that aborted the program, or "none"

rateVars == << unrated, rate_todo >>
partVars == << part_iter, last_find >>
partArgs == << threshold, compatibility >>
nichesVars == << niches, total_individuals >>
reproArgs == << pop_size, elite_percentage, selection_percentage >>
reproVars == << rg, ri, new_rated_population, new_unrated_population,
                next_id, last_mate >>

runVars == << goal, run >>
inputVars == << initial_pop, partition_self >>

vars == << pc, fitness, rated, rateVars, partVars, partArgs, nichesVars,
           reproArgs, reproVars, runVars, inputVars, panic >>

\* ---------------------------------------------------------- individuals

\* Option<Fitness>: None is <<>>, Some(f) is <<f>>
None == << >>
Some(f) == << f >>

\* Individual { fitness, genome }; id names the object, it is not a field
Individual(i, g, fit) == [id |-> i, genome |-> g, fitness |-> fit]

has_fitness(ind) == ind.fitness # None

\* Individual::fitness: Option::unwrap
fitness_of(ind) == ind.fitness[1]

\* Population::len
len(pop) == Len(pop)

RECURSIVE SeqSum(_)
SeqSum(s) == IF s = << >> THEN 0 ELSE Head(s) + SeqSum(Tail(s))

\* Population<T, R: IsRated>::mean_fitness, of a non-empty population
mean_fitness(pop) ==
    Rat(SeqSum([i \in 1 .. Len(pop) |-> fitness_of(pop[i])]), len(pop))

\* Population<T, Unrated>::add_genome
add_genome(pop, i, g) == Append(pop, Individual(i, g, None))

\* Population<T, Rated>::add_individual
add_individual(pop, ind) == Append(pop, ind)

\* Population<T, Rated>::append
append(pop, other) == pop \o other

\* rate_one with the fitness of the first genome attached to every individual
rate_one_first_genome(pop, i, f) ==
    [pop EXCEPT ![i].fitness = Some(f[pop[1].genome])]

\* rate_one that visits the individual and leaves it without a fitness
rate_one_skipped(pop, i, f) == pop

\* the step of rate_seq / rate_par on the individual at index i
rate_one(pop, i, f) == [pop EXCEPT ![i].fitness = Some(f[pop[i].genome])]

\* Population<T, Unrated>::rate_seq as a function of its input: the loop over
\* iter_mut() from index k on
RECURSIVE rate_seq_from(_, _, _)
rate_seq_from(pop, f, k) ==
    IF k > Len(pop) THEN pop ELSE rate_seq_from(rate_one(pop, k, f), f, k + 1)

rate_seq(pop, f) == rate_seq_from(pop, f, 1)

\* ------------------------------------------------------------- distance

Distance(name, a, b) ==
    CASE name = "abs" -> Abs(a - b)
      [] name = "table" -> IF a = b THEN 0
                           ELSE IF {a, b} = {0, 1} THEN 2
                           ELSE IF {a, b} = {0, 2} THEN 3
                           ELSE 1
      [] name = "first" -> a
      [] OTHER -> 0

\* --------------------------------------------------------------- niches

\* Niche::from_population (asserts pop.len() > 0 at the caller's action)
from_population(pop) == [population |-> pop, centroid |-> None]

\* from_individual that leaves the individual out of the niche
from_individual_empty(ind) == from_population(<< >>)

\* Niche::from_individual
from_individual(ind) == from_population(add_individual(<< >>, ind))

\* Niche::len
niche_len(niche) == len(niche.population)

\* Niche::centroid_or_else_random: the centroid if Some(i) with i in range
\* (0-based), or else the individual rng.choose picked (index r, 1-based)
centroid_or_else_random(niche, r) ==
    IF niche.centroid # None /\ niche.centroid[1] < len(niche.population)
    THEN niche.population[niche.centroid[1] + 1]
    ELSE niche.population[r]

\* the draws rng.choose can make, one per niche
RepChoices(ns) ==
    LET longest == IF ns = << >> THEN 0
                   ELSE CHOOSE n \in { niche_len(ns[k]) : k \in 1 .. Len(ns) } :
                           \A k \in 1 .. Len(ns) : niche_len(ns[k]) <= n
    IN  { c \in [1 .. Len(ns) -> 1 .. longest] :
            \A k \in 1 .. Len(ns) : c[k] <= niche_len(ns[k]) }

\* Compatible with `<=` for `<`
Compatible_or_equal(rep, ind, thr, dist) ==
    Distance(dist, rep.genome, ind.genome) <= thr

\* the compatibility test of find_first_matching_niche
Compatible(rep, ind, thr, dist) ==
    Distance(dist, rep.genome, ind.genome) < thr

\* Niches::find_first_matching_niche: the index of the first niche, scanned
\* from k, whose drawn individual is compatible with ind; 0 is None
RECURSIVE find_first_matching_niche(_, _, _, _, _, _)
find_first_matching_niche(ns, ind, thr, dist, reps, k) ==
    IF k > Len(ns) THEN 0
    ELSE IF Compatible(centroid_or_else_random(ns[k], reps[k]), ind, thr, dist)
         THEN k
         ELSE find_first_matching_niche(ns, ind, thr, dist, reps, k + 1)

\* niche_add_individual that drops the individual
niche_add_individual_dropped(ns, k, ind) == ns

\* Niche::add_individual on the niche at index k
niche_add_individual(ns, k, ind) ==
    [ns EXCEPT ![k].population = add_individual(@, ind)]

\* Niches::add_niche: the new total_individuals
add_niche_total(total, niche) == total + niche_len(niche)

\* Niches::add_niche: the new niches
add_niche_niches(ns, niche) == Append(ns, niche)

RECURSIVE collapse_from(_, _, _)
collapse_from(pop, ns, k) ==
    IF k > Len(ns) THEN pop
    ELSE collapse_from(append(pop, ns[k].population), ns, k + 1)

\* Niches::collapse: the population built from a non-empty niches
collapse_pop(ns) == collapse_from(ns[1].population, ns, 2)

\* -------------------------------------------------------- reproduction

Min(S) == CHOOSE x \in S : \A y \in S : x <= y
Max(S) == CHOOSE x \in S : \A y \in S : y <= x

\* the values rng.gen::<f64>() can return: half open [0, 1)
Draws == { Rat(0, 1), Rat(1, 4), Rat(1, 2), Rat(3, 4) }

\* probabilistic_round with `p <= num.fract()`
probabilistic_round_leq(num, p) ==
    IF RLeq(p, Fract(num)) THEN Trunc(num) + 1 ELSE Trunc(num)

\* prob::probabilistic_round of num >= 0 with the draw p
probabilistic_round(num, p) ==
    IF RLess(p, Fract(num)) THEN Trunc(num) + 1 ELSE Trunc(num)

\* sort_position without `.reverse()`: ascending
sort_position_ascending(pop, i) ==
    Cardinality({ j \in 1 .. Len(pop) :
                    \/ fitness_of(pop[j]) < fitness_of(pop[i])
                    \/ fitness_of(pop[j]) = fitness_of(pop[i]) /\ j <= i })

\* sort_position of an unstable sort: equally fit individuals come out in
\* reverse order
sort_position_unstable(pop, i) ==
    Cardinality({ j \in 1 .. Len(pop) :
                    \/ fitness_of(pop[j]) > fitness_of(pop[i])
                    \/ fitness_of(pop[j]) = fitness_of(pop[i]) /\ j >= i })

\* sort_by(|a, b| a.fitness().cmp(&b.fitness()).reverse()) is a stable sort:
\* the individual at index i goes behind every fitter one and behind the
\* equally fit ones that came before it
sort_position(pop, i) ==
    Cardinality({ j \in 1 .. Len(pop) :
                    \/ fitness_of(pop[j]) > fitness_of(pop[i])
                    \/ fitness_of(pop[j]) = fitness_of(pop[i]) /\ j <= i })

\* Population<T, Rated>::sort
sort(pop) ==
    [k \in 1 .. Len(pop) |->
        pop[CHOOSE i \in 1 .. Len(pop) : sort_position(pop, i) = k]]

\* Population<T, RatedSorted>::best_individual: self.individuals.first()
best_individual(pop) == IF Len(pop) = 0 THEN << >> ELSE << pop[1] >>

\* merge that rates the individuals it takes over anew, as 0
merge_rated_anew(self, other, n) ==
    self \o [k \in 1 .. Min({n, Len(other)}) |-> [other[k] EXCEPT !.fitness = Some(0)]]

\* Population<T, Rated>::merge: extend(other.into_iter().take(n))
merge(self, other, n) == self \o SubSeq(other, 1, Min({n, Len(other)}))

\* elite_size_of without `cmp::max(1, ..)`
elite_size_of_unclamped(new_pop_size, elite, p) ==
    probabilistic_round(RMul(new_pop_size, elite), p)

\* reproduce_into: elite_size
elite_size_of(new_pop_size, elite, p) ==
    Max({1, probabilistic_round(RMul(new_pop_size, elite), p)})

\* offspring_size_of with elite_percentage for elite_percentage.inv()
offspring_size_of_elite(new_pop_size, elite, p) ==
    probabilistic_round(RMul(new_pop_size, elite), p)

\* reproduce_into: offspring_size
offspring_size_of(new_pop_size, elite, p) ==
    probabilistic_round(RMul(new_pop_size, Inv(elite)), p)

\* select_size_of without `cmp::min(self.len(), ..)`
select_size_of_unbounded(length, new_pop_size, selection, p) ==
    probabilistic_round(RMul(new_pop_size, selection), p)

\* reproduce_into: select_size
select_size_of(length, new_pop_size, selection, p) ==
    Min({length, probabilistic_round(RMul(new_pop_size, selection), p)})

\* create_single_offspring: parent2 after `for _ in 0..3`, where ds[0] is the
\* first draw of parent2 and ds[1..3] are the redraws
RECURSIVE redraw(_, _, _)
redraw(parent1, ds, n) ==
    IF n < 3 /\ ds[n] = parent1 THEN redraw(parent1, ds, n + 1) ELSE n

\* mate_args without the swap of parent1 and parent2
mate_args_unordered(parent1, ds) ==
    LET n == redraw(parent1, ds, 0)
        parent2 == ds[n]
    IN  [parent1 |-> parent1, parent2 |-> parent2,
         self_mate |-> (parent1 = parent2), redraws |-> n]

\* create_single_offspring: the arguments handed to mate.mate (0-based
\* indices into the sorted population, and the self-mate flag)
mate_args(parent1, ds) ==
    LET n == redraw(parent1, ds, 0)
        parent2 == ds[n]
        a == IF parent1 > parent2 THEN parent2 ELSE parent1
        b == IF parent1 > parent2 THEN parent1 ELSE parent2
    IN  [parent1 |-> a, parent2 |-> b, self_mate |-> (a = b), redraws |-> n]

\* Niches::total_mean: the sum of the niches' mean fitnesses
RECURSIVE total_mean_from(_, _)
total_mean_from(ns, k) ==
    IF k > Len(ns) THEN RInt(0)
    ELSE RAdd(mean_fitness(ns[k].population), total_mean_from(ns, k + 1))

\* total_mean as the mean fitness of all individuals of all niches
RECURSIVE all_individuals(_, _)
all_individuals(ns, k) ==
    IF k > Len(ns) THEN << >>
    ELSE ns[k].population \o all_individuals(ns, k + 1)

total_mean_weighted(ns) == mean_fitness(all_individuals(ns, 1))

total_mean_of(ns) == total_mean_from(ns, 1)

\* percentage_of_population giving every niche the whole when total_mean is 0
percentage_of_population_whole(niche, total_mean, num_niches) ==
    IF total_mean = RInt(0)
    THEN RInt(1)
    ELSE RDiv(mean_fitness(niche.population), total_mean)

\* reproduce_global: percentage_of_population of a niche
percentage_of_population(niche, total_mean, num_niches) ==
    IF total_mean = RInt(0)
    THEN Rat(1, num_niches)
    ELSE RDiv(mean_fitness(niche.population), total_mean)

\* reproduce_global: niche_size
niche_size_of(new_pop_size, percentage) == RMul(RInt(new_pop_size), percentage)

\* Closed01 values the caller may supply
Fractions == { Rat(0, 1), Rat(1, 2), Rat(1, 1) }

\* ----------------------------------------------------------------- init

NoFind == [ind |-> 0, reps |-> << >>, result |-> 0]
NoMate == [parent1 |-> 0, parent2 |-> 0, self_mate |-> FALSE, redraws |-> 0]
NoRg == [active |-> FALSE, iter |-> << >>, num_niches |-> 0,
         total_mean |-> RInt(0), shares |-> << >>, means |-> << >>,
         lens |-> << >>]
NoRi == [active |-> FALSE, self |-> << >>, new_pop_size |-> RInt(0),
         elite_size |-> 0, offspring_size |-> 0, select_size |-> 0,
         sorted_pop |-> << >>, made |-> 0]

NoGoal == [kind |-> "none", n |-> 0]
NoRun == [active |-> FALSE, stage |-> "none", iteration |-> 0,
          last_number_of_niches |-> 0, checks |-> << >>, cycles |-> 0]

InitialPopulations ==
    UNION { [1 .. n -> Genomes] : n \in 0 .. MaxPop }

\* the caller builds an Unrated population with add_genome
RECURSIVE build_unrated(_, _)
build_unrated(gs, n) ==
    IF n = 0 THEN << >>
    ELSE add_genome(build_unrated(gs, n - 1), n, gs[n])

Init ==
    /\ pc = "unrated"
    /\ fitness \in Evaluators
    /\ \E gs \in InitialPopulations :
          /\ unrated = build_unrated(gs, Len(gs))
          /\ next_id = Len(gs) + 1
    /\ initial_pop = unrated
    /\ partition_self = << >>
    /\ rate_todo = {}
    /\ rated = << >>
    /\ part_iter = << >>
    /\ threshold = 0
    /\ compatibility = "none"
    /\ niches = << >>
    /\ total_individuals = 0
    /\ last_find = NoFind
    /\ pop_size = 0
    /\ elite_percentage = RInt(0)
    /\ selection_percentage = RInt(0)
    /\ rg = NoRg
    /\ ri = NoRi
    /\ new_rated_population = << >>
    /\ new_unrated_population = << >>
    /\ last_mate = NoMate
    /\ goal = NoGoal
    /\ run = NoRun
    /\ panic = "none"

\* -------------------------------------------------------------- rating

\* rate_seq / rate_par are called
RateCall(kind) ==
    /\ pc = "unrated"
    /\ pc' = kind
    /\ rate_todo' = 1 .. Len(unrated)
    /\ UNCHANGED << inputVars, runVars, fitness, rated, unrated, partVars, partArgs, nichesVars,
                    reproArgs, reproVars, panic >>

RateSeqCall == RateCall("rate_seq")

RateParCall == RateCall("rate_par")

\* rate_seq: one iteration of `for ind in self.individuals.iter_mut()`
RateSeqStep ==
    /\ pc = "rate_seq"
    /\ rate_todo # {}
    /\ LET i == Min(rate_todo)
       IN  /\ unrated' = rate_one(unrated, i, fitness)
           /\ rate_todo' = rate_todo \ {i}
    /\ UNCHANGED << inputVars, runVars, pc, fitness, rated, partVars, partArgs, nichesVars,
                    reproArgs, reproVars, panic >>

\* RateParStep whose workers share one slot: the fitness of individual i is
\* written to the first individual not yet visited
RateParStep_shared_slot ==
    /\ pc = "rate_par"
    /\ \E i \in rate_todo :
          /\ unrated' = [unrated EXCEPT ![Min(rate_todo)].fitness =
                                            Some(fitness[unrated[i].genome])]
          /\ rate_todo' = rate_todo \ {i}
    /\ UNCHANGED << inputVars, runVars, pc, fitness, rated, partVars, partArgs, nichesVars,
                    reproArgs, reproVars, panic >>

\* RateParStep whose workers race on the evaluator's argument: the fitness
\* written to individual i may be that of any individual not yet visited
RateParStep_racy ==
    /\ pc = "rate_par"
    /\ \E i \in rate_todo, j \in rate_todo :
          /\ unrated' = [unrated EXCEPT ![i].fitness =
                                            Some(fitness[unrated[j].genome])]
          /\ rate_todo' = rate_todo \ {i}
    /\ UNCHANGED << inputVars, runVars, pc, fitness, rated, partVars, partArgs, nichesVars,
                    reproArgs, reproVars, panic >>

\* rate_par: a worker runs the closure of par_iter_mut().for_each on one
\* individual; the workers take the individuals in any order
RateParStep ==
    /\ pc = "rate_par"
    /\ \E i \in rate_todo :
          /\ unrated' = rate_one(unrated, i, fitness)
          /\ rate_todo' = rate_todo \ {i}
    /\ UNCHANGED << inputVars, runVars, pc, fitness, rated, partVars, partArgs, nichesVars,
                    reproArgs, reproVars, panic >>

\* rate_seq / rate_par return the individuals re-tagged Rated
RateReturn ==
    /\ pc \in {"rate_seq", "rate_par"}
    /\ ~ run.active
    /\ rate_todo = {}
    /\ rated' = unrated
    /\ unrated' = << >>
    /\ pc' = "rated"
    /\ UNCHANGED << inputVars, runVars, fitness, rate_todo, partVars, partArgs, nichesVars,
                    reproArgs, reproVars, panic >>

\* ----------------------------------------------------------- partition

\* Population<T, Rated>::partition is called: Niches::new()
PartitionCall ==
    /\ pc = "rated"
    /\ \E thr \in Thresholds, dist \in DistanceFns :
          /\ threshold' = thr
          /\ compatibility' = dist
    /\ part_iter' = rated
    /\ rated' = << >>
    /\ niches' = << >>
    /\ total_individuals' = 0
    /\ partition_self' = rated
    /\ pc' = "partition"
    /\ UNCHANGED << initial_pop, runVars, fitness, rateVars, last_find, reproArgs,
                    reproVars, panic >>

\* partition: one iteration of `for ind in self.individuals.into_iter()`
PartitionStep ==
    /\ pc = "partition"
    /\ part_iter # << >>
    /\ LET ind == Head(part_iter)
       IN  \E reps \in RepChoices(niches) :
              LET k == find_first_matching_niche(niches, ind, threshold,
                                                 compatibility, reps, 1)
              IN  /\ last_find' = [ind |-> ind.id, reps |-> reps, result |-> k]
                  /\ IF k # 0
                     THEN /\ niches' = niche_add_individual(niches, k, ind)
                          /\ UNCHANGED total_individuals
                     ELSE /\ niches' = add_niche_niches(niches, from_individual(ind))
                          /\ total_individuals' =
                                add_niche_total(total_individuals, from_individual(ind))
    /\ part_iter' = Tail(part_iter)
    /\ UNCHANGED << inputVars, runVars, pc, fitness, rated, rateVars, partArgs, reproArgs,
                    reproVars, panic >>

\* partition returns the niches
PartitionReturn ==
    /\ pc = "partition"
    /\ ~ run.active
    /\ part_iter = << >>
    /\ pc' = "niches"
    /\ threshold' = 0
    /\ compatibility' = "none"
    /\ last_find' = NoFind
    /\ UNCHANGED << inputVars, runVars, fitness, rated, rateVars, part_iter, nichesVars,
                    reproArgs, reproVars, panic >>

\* Niches::from_single_population
FromSinglePopulation ==
    /\ pc = "rated"
    /\ IF len(rated) > 0
       THEN /\ total_individuals' = len(rated)
            /\ niches' = << from_population(rated) >>
            /\ rated' = << >>
            /\ pc' = "niches"
            /\ UNCHANGED panic
       ELSE /\ pc' = "panic"
            /\ panic' = "from_population: pop.len() > 0"
            /\ UNCHANGED << rated, niches, total_individuals >>
    /\ UNCHANGED << inputVars, runVars, fitness, rateVars, partVars, partArgs, reproArgs,
                    reproVars >>

\* Niches::collapse
Collapse ==
    /\ pc = "niches"
    /\ IF niches = << >>
       THEN /\ pc' = "panic"
            /\ panic' = "collapse: !self.niches.is_empty()"
            /\ UNCHANGED << rated, niches, total_individuals >>
       ELSE IF total_individuals # len(collapse_pop(niches))
       THEN /\ pc' = "panic"
            /\ panic' = "collapse: tot == pop.len()"
            /\ UNCHANGED << rated, niches, total_individuals >>
       ELSE /\ rated' = collapse_pop(niches)
            /\ niches' = << >>
            /\ total_individuals' = 0
            /\ pc' = "collapsed"
            /\ UNCHANGED panic
    /\ UNCHANGED << inputVars, runVars, fitness, rateVars, partVars, partArgs, reproArgs,
                    reproVars >>

\* -------------------------------------------------- reproduce, stepwise

\* reproduce_into up to the sort: the three probabilistic_round draws
reproduce_into_enter(self, new_pop_size, elite, selection) ==
    \E es \in { elite_size_of(new_pop_size, elite, p) : p \in Draws },
       os \in { offspring_size_of(new_pop_size, elite, p) : p \in Draws },
       ss \in { select_size_of(len(self), new_pop_size, selection, p) : p \in Draws } :
        ri' = [active |-> TRUE,
               self |-> self,
               new_pop_size |-> new_pop_size,
               elite_size |-> es,
               offspring_size |-> os,
               select_size |-> ss,
               sorted_pop |-> sort(self),
               made |-> 0]

\* Population<T, Rated>::reproduce is called
ReproduceCall ==
    /\ pc = "rated"
    /\ \E target \in Targets, elite \in Fractions, selection \in Fractions :
          /\ elite_percentage' = elite
          /\ selection_percentage' = selection
          /\ reproduce_into_enter(rated, RInt(target), elite, selection)
    /\ rated' = << >>
    /\ new_rated_population' = << >>
    /\ new_unrated_population' = << >>
    /\ pc' = "reproduce_into"
    /\ UNCHANGED << inputVars, runVars, fitness, rateVars, partVars, partArgs, nichesVars,
                    pop_size, rg, next_id, last_mate, panic >>

\* reproduce_into: one iteration of `for _ in 0..offspring_size`, that is
\* create_single_offspring and add_genome
OffspringStep ==
    /\ pc = "reproduce_into"
    /\ ri.select_size > 0
    /\ ri.made < ri.offspring_size
    /\ IF ri.select_size <= len(ri.sorted_pop)
       THEN \E m \in { mate_args(parent1, ds) :
                           parent1 \in 0 .. ri.select_size - 1,
                           ds \in [0 .. 3 -> 0 .. ri.select_size - 1] },
               child \in Offspring :
                /\ last_mate' = m
                /\ new_unrated_population' =
                      add_genome(new_unrated_population, next_id, child)
                /\ next_id' = next_id + 1
                /\ ri' = [ri EXCEPT !.made = @ + 1]
                /\ UNCHANGED << pc, panic >>
       ELSE /\ pc' = "panic"
            /\ panic' = "create_single_offspring: select_size <= self.len()"
            /\ UNCHANGED << ri, new_unrated_population, next_id, last_mate >>
    /\ UNCHANGED << inputVars, runVars, fitness, rated, rateVars, partVars, partArgs, nichesVars,
                    reproArgs, rg, new_rated_population >>

\* reproduce_into: `new_rated_population.merge(sorted_pop, elite_size)`
reproduce_into_done == ri.select_size = 0 \/ ri.made = ri.offspring_size

\* reproduce returns (new_rated_population, new_unrated_population)
ReproduceReturn ==
    /\ pc = "reproduce_into"
    /\ ~ rg.active
    /\ reproduce_into_done
    /\ new_rated_population' =
          merge(new_rated_population, ri.sorted_pop, ri.elite_size)
    /\ ri' = [ri EXCEPT !.active = FALSE]
    /\ last_mate' = NoMate
    /\ pc' = "pair"
    /\ UNCHANGED << inputVars, runVars, fitness, rated, rateVars, partVars, partArgs, nichesVars,
                    reproArgs, rg, new_unrated_population, next_id, panic >>

\* ------------------------------------------------------ reproduce_global

\* reproduce_global_assert with `elite_percentage < selection_percentage`
reproduce_global_assert_strict(total, ns, elite, selection) ==
    IF ~ (total > 0) THEN "reproduce_global: self.num_individuals() > 0"
    ELSE IF ~ (Len(ns) > 0) THEN "reproduce_global: self.num_niches() > 0"
    ELSE IF ~ RLess(elite, selection)
         THEN "reproduce_global: elite_percentage <= selection_percentage"
    ELSE IF ~ RLeq(RInt(0), total_mean_of(ns))
         THEN "reproduce_global: total_mean.get() >= 0.0"
    ELSE "none"

\* reproduce_global_assert without `assert!(total_mean.get() >= 0.0)`
reproduce_global_assert_no_mean(total, ns, elite, selection) ==
    IF ~ (total > 0) THEN "reproduce_global: self.num_individuals() > 0"
    ELSE IF ~ (Len(ns) > 0) THEN "reproduce_global: self.num_niches() > 0"
    ELSE IF ~ RLeq(elite, selection)
         THEN "reproduce_global: elite_percentage <= selection_percentage"
    ELSE "none"

\* the assertions at the entry of reproduce_global, in order
reproduce_global_assert(total, ns, elite, selection) ==
    IF ~ (total > 0) THEN "reproduce_global: self.num_individuals() > 0"
    ELSE IF ~ (Len(ns) > 0) THEN "reproduce_global: self.num_niches() > 0"
    ELSE IF ~ RLeq(elite, selection)
         THEN "reproduce_global: elite_percentage <= selection_percentage"
    ELSE IF ~ RLeq(RInt(0), total_mean_of(ns))
         THEN "reproduce_global: total_mean.get() >= 0.0"
    ELSE "none"

\* reproduce_global up to its loop
reproduce_global_enter(new_pop_size, elite, selection) ==
    LET failed == reproduce_global_assert(total_individuals, niches, elite, selection)
    IN  IF failed # "none"
        THEN /\ pc' = "panic"
             /\ panic' = failed
             /\ UNCHANGED << nichesVars, reproVars >>
        ELSE /\ rg' = [active |-> TRUE,
                       iter |-> niches,
                       num_niches |-> Len(niches),
                       total_mean |-> total_mean_of(niches),
                       shares |-> << >>,
                       means |-> << >>,
                       lens |-> << >>]
             /\ niches' = << >>
             /\ total_individuals' = 0
             /\ new_rated_population' = << >>
             /\ new_unrated_population' = << >>
             /\ pc' = "reproduce_global"
             /\ UNCHANGED << ri, next_id, last_mate, panic >>

\* Niches::reproduce_global is called
ReproduceGlobalCall ==
    /\ pc = "niches"
    /\ \E target \in Targets, elite \in Fractions, selection \in Fractions :
          /\ pop_size' = target
          /\ elite_percentage' = elite
          /\ selection_percentage' = selection
          /\ reproduce_global_enter(target, elite, selection)
    /\ UNCHANGED << inputVars, runVars, fitness, rated, rateVars, partVars, partArgs >>

\* reproduce_global: one iteration of `for niche in self.niches.into_iter()`
\* up to the sort inside reproduce_into
ReproduceGlobalNiche ==
    /\ pc = "reproduce_global"
    /\ rg.iter # << >>
    /\ \E niche \in { Head(rg.iter) } :
       \E percentage \in
              { percentage_of_population(niche, rg.total_mean, rg.num_niches) } :
       \E niche_size \in { niche_size_of(pop_size, percentage) } :
           IF RLeq(RInt(0), percentage) /\ RLeq(percentage, RInt(1))
           THEN /\ rg' = [rg EXCEPT !.iter = Tail(@),
                                    !.shares = Append(@, niche_size),
                                    !.means = Append(@, mean_fitness(niche.population)),
                                    !.lens = Append(@, niche_len(niche))]
                /\ reproduce_into_enter(niche.population, niche_size,
                                        elite_percentage, selection_percentage)
                /\ pc' = "reproduce_into"
                /\ UNCHANGED panic
           ELSE /\ pc' = "panic"
                /\ panic' = "reproduce_global: percentage_of_population in [0, 1]"
                /\ UNCHANGED << rg, ri >>
    /\ UNCHANGED << inputVars, runVars, fitness, rated, rateVars, partVars, partArgs, nichesVars,
                    reproArgs, new_rated_population, new_unrated_population,
                    next_id, last_mate >>

\* reproduce_into returns into the loop of reproduce_global
ReproduceIntoReturn ==
    /\ pc = "reproduce_into"
    /\ rg.active
    /\ reproduce_into_done
    /\ new_rated_population' =
          merge(new_rated_population, ri.sorted_pop, ri.elite_size)
    /\ ri' = NoRi
    /\ last_mate' = NoMate
    /\ pc' = "reproduce_global"
    /\ UNCHANGED << inputVars, runVars, fitness, rated, rateVars, partVars, partArgs, nichesVars,
                    reproArgs, rg, new_unrated_population, next_id, panic >>

\* reproduce_global returns (new_rated_population, new_unrated_population)
ReproduceGlobalReturn ==
    /\ pc = "reproduce_global"
    /\ ~ run.active
    /\ rg.iter = << >>
    /\ rg' = [rg EXCEPT !.active = FALSE]
    /\ pc' = "pair"
    /\ UNCHANGED << inputVars, runVars, fitness, rated, rateVars, partVars, partArgs, nichesVars,
                    reproArgs, ri, new_rated_population, new_unrated_population,
                    next_id, last_mate, panic >>

\* ------------------------------------------------------------ Runner

\* goal predicates G: Fn(usize, &Population<T, Rated>, usize) -> bool the
\* caller may supply; each holds from generation MaxGen on
Goals ==
    { [kind |-> "iteration", n |-> 0], [kind |-> "iteration", n |-> MaxGen],
      [kind |-> "fitness", n |-> 1], [kind |-> "niches", n |-> 2] }

goal_condition(g, iteration, pop, number_of_niches) ==
    \/ iteration >= MaxGen
    \/ g.kind = "iteration" /\ iteration >= g.n
    \/ g.kind = "fitness" /\ \E i \in 1 .. Len(pop) : fitness_of(pop[i]) >= g.n
    \/ g.kind = "niches" /\ number_of_niches >= g.n

\* the fields of Runner the caller may supply
RunnerConfig(n, elite, selection, thr, dist) ==
    [pop_size |-> n, elite_percentage |-> elite, selection_percentage |-> selection,
     compatibility_threshold |-> thr, compatibility |-> dist]

RunnerConfigs ==
    { RunnerConfig(2, Rat(1, 2), Rat(1, 1), 1, "abs"),
      RunnerConfig(2, Rat(0, 1), Rat(1, 2), 3, "abs"),
      RunnerConfig(1, Rat(1, 2), Rat(1, 2), 0, "abs"),
      RunnerConfig(1, Rat(0, 1), Rat(1, 1), 2, "first"),
      RunnerConfig(2, Rat(1, 1), Rat(1, 2), 1, "abs") }

\* the initial populations (their genomes) the caller may hand to run
RunInitialPopulations ==
    { << >>, << 2 >>, << 0, 2 >>, << 1, 1 >>, << 2, 1 >>, << 0, 0 >> }

RunInit ==
    /\ pc = "run"
    /\ fitness \in Evaluators
    /\ \E gs \in RunInitialPopulations :
          /\ unrated = build_unrated(gs, Len(gs))
          /\ next_id = Len(gs) + 1
    /\ initial_pop = unrated
    /\ partition_self = << >>
    /\ \E cfg \in RunnerConfigs :
          /\ pop_size = cfg.pop_size
          /\ elite_percentage = cfg.elite_percentage
          /\ selection_percentage = cfg.selection_percentage
          /\ threshold = cfg.compatibility_threshold
          /\ compatibility = cfg.compatibility
    /\ goal \in Goals
    /\ run = [NoRun EXCEPT !.active = TRUE]
    /\ rate_todo = {}
    /\ rated = << >>
    /\ part_iter = << >>
    /\ niches = << >>
    /\ total_individuals = 0
    /\ last_find = NoFind
    /\ rg = NoRg
    /\ ri = NoRi
    /\ new_rated_population = << >>
    /\ new_unrated_population = << >>
    /\ last_mate = NoMate
    /\ panic = "none"

\* run is called: `iteration = 0`, `initial_pop.rate_par(self.fitness)` is
\* called, `last_number_of_niches = 1`
RunCall ==
    /\ pc = "run"
    /\ run' = [run EXCEPT !.stage = "initial", !.iteration = 0,
                          !.last_number_of_niches = 1]
    /\ rate_todo' = 1 .. Len(unrated)
    /\ pc' = "rate_par"
    /\ UNCHANGED << inputVars, goal, fitness, rated, unrated, partVars, partArgs,
                    nichesVars, reproArgs, reproVars, panic >>

\* `current_rated_pop = initial_pop.rate_par(self.fitness)` returns
RunRated ==
    /\ pc = "rate_par"
    /\ run.stage = "initial"
    /\ rate_todo = {}
    /\ rated' = unrated
    /\ unrated' = << >>
    /\ run' = [run EXCEPT !.stage = "loop"]
    /\ pc' = "run_while"
    /\ UNCHANGED << inputVars, goal, fitness, rate_todo, partVars, partArgs, nichesVars,
                    reproArgs, reproVars, panic >>

\* `while !goal_condition(iteration, &current_rated_pop, last_number_of_niches)`
\* and, when the goal holds, `return (iteration, current_rated_pop)`
RunGoalCheck ==
    /\ pc = "run_while"
    /\ LET reached == goal_condition(goal, run.iteration, rated,
                                      run.last_number_of_niches)
       IN  /\ run' = [run EXCEPT !.checks =
                          Append(@, [iteration |-> run.iteration, result |-> reached])]
           /\ pc' = IF reached THEN "run_returned" ELSE "run_body"
    /\ UNCHANGED << inputVars, goal, fitness, rated, rateVars, partVars, partArgs,
                    nichesVars, reproArgs, reproVars, panic >>

\* `current_rated_pop.partition(rng, threshold, compatibility)` is called
RunPartitionCall ==
    /\ pc = "run_body"
    /\ part_iter' = rated
    /\ rated' = << >>
    /\ niches' = << >>
    /\ total_individuals' = 0
    /\ partition_self' = rated
    /\ pc' = "partition"
    /\ UNCHANGED << initial_pop, runVars, fitness, rateVars, last_find, partArgs,
                    reproArgs, reproVars, panic >>

\* partition returns, `last_number_of_niches = niches.num_niches()`, and
\* `niches.reproduce_global(self.pop_size, ...)` is called
RunPartitionReturn ==
    /\ pc = "partition"
    /\ run.active
    /\ part_iter = << >>
    /\ run' = [run EXCEPT !.last_number_of_niches = Len(niches)]
    /\ last_find' = NoFind
    /\ reproduce_global_enter(pop_size, elite_percentage, selection_percentage)
    /\ UNCHANGED << inputVars, goal, fitness, rated, rateVars, part_iter, partArgs,
                    reproArgs >>

\* reproduce_global returns, `current_rated_pop = new_rated`, and
\* `new_unrated.rate_par(self.fitness)` is called
RunReproduceReturn ==
    /\ pc = "reproduce_global"
    /\ run.active
    /\ rg.iter = << >>
    /\ rg' = NoRg
    /\ rated' = new_rated_population
    /\ unrated' = new_unrated_population
    /\ new_rated_population' = << >>
    /\ new_unrated_population' = << >>
    /\ rate_todo' = 1 .. Len(new_unrated_population)
    /\ run' = [run EXCEPT !.stage = "offspring"]
    /\ pc' = "rate_par"
    /\ UNCHANGED << inputVars, goal, fitness, partVars, partArgs, nichesVars, reproArgs,
                    ri, next_id, last_mate, panic >>

\* RunAppend without `iteration += 1`
RunAppend_no_increment ==
    /\ pc = "rate_par"
    /\ run.stage = "offspring"
    /\ rate_todo = {}
    /\ rated' = append(rated, unrated)
    /\ unrated' = << >>
    /\ run' = [run EXCEPT !.stage = "loop", !.cycles = @ + 1]
    /\ pc' = "run_while"
    /\ UNCHANGED << inputVars, goal, fitness, rate_todo, partVars, partArgs,
                    nichesVars, reproArgs, reproVars, panic >>

\* rate_par returns, `current_rated_pop.append(...)`, `iteration += 1`
RunAppend ==
    /\ pc = "rate_par"
    /\ run.stage = "offspring"
    /\ rate_todo = {}
    /\ rated' = append(rated, unrated)
    /\ unrated' = << >>
    /\ run' = [run EXCEPT !.stage = "loop", !.iteration = @ + 1,
                          !.cycles = @ + 1]
    /\ pc' = "run_while"
    /\ UNCHANGED << inputVars, goal, fitness, rate_todo, partVars, partArgs, nichesVars,
                    reproArgs, reproVars, panic >>

RunNext ==
    \/ RunCall
    \/ RateParStep
    \/ RunRated
    \/ RunGoalCheck
    \/ RunPartitionCall
    \/ PartitionStep
    \/ RunPartitionReturn
    \/ ReproduceGlobalNiche
    \/ OffspringStep
    \/ ReproduceIntoReturn
    \/ RunReproduceReturn
    \/ RunAppend

RunSpec == RunInit /\ [][RunNext]_vars

\* the thread of run keeps running, and rayon's workers finish their items
RunFairSpec == RunSpec /\ WF_vars(RunNext)

Next ==
    \/ RateSeqCall
    \/ RateParCall
    \/ RateSeqStep
    \/ RateParStep
    \/ RateReturn
    \/ PartitionCall
    \/ PartitionStep
    \/ PartitionReturn
    \/ FromSinglePopulation
    \/ Collapse
    \/ ReproduceCall
    \/ OffspringStep
    \/ ReproduceReturn
    \/ ReproduceGlobalCall
    \/ ReproduceGlobalNiche
    \/ ReproduceIntoReturn
    \/ ReproduceGlobalReturn

Spec == Init /\ [][Next]_vars

\* the library calls and Runner::run together
LibraryInit == Init \/ RunInit

LibraryNext ==
    \/ Next
    \/ RunCall
    \/ RunRated
    \/ RunGoalCheck
    \/ RunPartitionCall
    \/ RunPartitionReturn
    \/ RunReproduceReturn
    \/ RunAppend

LibrarySpec == LibraryInit /\ [][LibraryNext]_vars

\* ------------------------------------------------------------- claims

\* the individuals of all niches, niche after niche
RECURSIVE niches_individuals(_, _)
niches_individuals(ns, k) ==
    IF k > Len(ns) THEN << >>
    ELSE ns[k].population \o niches_individuals(ns, k + 1)

niches_size_sum(ns) == Len(niches_individuals(ns, 1))

\* C1: in every state of a Niches value, total_individuals equals the sum of
\* the lengths of its niches.
C1_TotalIsSumOfNiches == total_individuals = niches_size_sum(niches)

\* C2: collapse(partition(population)) of a non-empty population completes
\* (its size assertion holds) and returns as many individuals as the
\* population had.
C2_CollapseOfPartition ==
    partition_self # << >> =>
        /\ panic # "collapse: tot == pop.len()"
        /\ pc = "collapsed" => len(rated) = len(partition_self)

\* how often the individual named id occurs in a sequence of individuals
occurrences(pop, id) == Cardinality({ i \in 1 .. Len(pop) : pop[i].id = id })

\* C6: partition loses and duplicates nothing: while it runs and when it has
\* returned, every individual of the population it was called on is in
\* exactly one place (one niche, or still to be visited), unchanged, and the
\* niche sizes of the result sum to the size of that population.
C6_PartitionConserves ==
    pc \in {"partition", "niches"} /\ (pc = "niches" => partition_self # << >>) =>
        LET held == niches_individuals(niches, 1) \o part_iter
        IN  /\ Len(held) = len(partition_self)
            /\ \A i \in 1 .. Len(partition_self) :
                  /\ occurrences(held, partition_self[i].id) = 1
                  /\ \E j \in 1 .. Len(held) : held[j] = partition_self[i]
            /\ pc = "niches" => niches_size_sum(niches) = len(partition_self)

C6_Witness ==
    /\ pc = "niches"
    /\ len(partition_self) = 3
    /\ Len(niches) = 2
    /\ niche_len(niches[1]) = 2

\* the distance find_first_matching_niche measured for niche j: from the
\* individual drawn in niche j to the candidate
measured(j, candidate) ==
    Distance(compatibility, niches[j].population[last_find.reps[j]].genome,
             candidate.genome)

\* C7: each individual, taken in population order, joins the first niche in
\* creation order whose drawn representative is at distance strictly less
\* than the threshold; if there is none it becomes a new singleton niche
\* appended behind the niches there were.
C7_FirstMatchingNiche ==
    pc = "partition" /\ last_find # NoFind =>
        LET candidate == partition_self[len(partition_self) - Len(part_iter)]
            scanned == Len(last_find.reps)
            k == last_find.result
        IN  /\ last_find.ind = candidate.id
            /\ k # 0 =>
                  /\ Len(niches) = scanned
                  /\ niches[k].population[niche_len(niches[k])] = candidate
                  /\ measured(k, candidate) < threshold
                  /\ \A j \in 1 .. k - 1 : measured(j, candidate) >= threshold
            /\ k = 0 =>
                  /\ Len(niches) = scanned + 1
                  /\ niches[scanned + 1].population = << candidate >>
                  /\ \A j \in 1 .. scanned : measured(j, candidate) >= threshold

\* the first niche was passed over at a distance equal to the threshold and
\* the second niche joined
C7_Witness ==
    /\ pc = "partition"
    /\ last_find.result = 2
    /\ Len(niches) = 2
    /\ measured(1, niches[2].population[niche_len(niches[2])]) = threshold

\* the first niche is joined although the second niche is strictly closer
C7_CloserLaterNiche ==
    /\ pc = "partition"
    /\ last_find.result = 1
    /\ Len(niches) = 2
    /\ measured(2, niches[1].population[niche_len(niches[1])])
          < measured(1, niches[1].population[niche_len(niches[1])])

\* the individual ind is one of pop
member(pop, ind) == \E j \in 1 .. Len(pop) : pop[j] = ind

\* f64::ceil of a non-negative value
Ceil(x) == IF Fract(x) = RInt(0) THEN Trunc(x) ELSE Trunc(x) + 1

\* reproduce (not reproduce_global) has returned, called with
\* elite_percentage <= selection_percentage
reproduce_returned ==
    pc = "pair" /\ rg = NoRg /\ RLeq(elite_percentage, selection_percentage)

\* the Rated population reproduce returned holds n individuals of its input,
\* each once, unchanged, and none of the others is fitter than one of them
top_of_input(n) ==
    /\ len(new_rated_population) = n
    /\ \A i \in 1 .. Len(new_rated_population) :
          /\ member(ri.self, new_rated_population[i])
          /\ occurrences(new_rated_population, new_rated_population[i].id) = 1
    /\ \A j \in 1 .. Len(ri.self) :
          ~ member(new_rated_population, ri.self[j]) =>
              \A i \in 1 .. Len(new_rated_population) :
                  fitness_of(ri.self[j]) <= fitness_of(new_rated_population[i])

\* elite_size is max(1, round(target * elite_fraction)), rounded down or up
elite_size_rounded ==
    LET x == RMul(ri.new_pop_size, elite_percentage)
    IN  /\ ri.elite_size >= 1
        /\ ri.elite_size \in { Max({1, Trunc(x)}), Max({1, Ceil(x)}) }

\* C3 as stated: reproduce returns exactly the top elite_size individuals of
\* its input, so that the Rated population holds exactly elite_size of them.
C3_ExactlyEliteSize ==
    reproduce_returned => elite_size_rounded /\ top_of_input(ri.elite_size)

\* C3, amended: reproduce returns the top min(elite_size, len) individuals of
\* its input by fitness, where elite_size = max(1, round(target *
\* elite_fraction)) >= 1: all of the input when it has fewer than elite_size.
C3_TopEliteOrAll ==
    reproduce_returned =>
        elite_size_rounded /\ top_of_input(Min({ri.elite_size, len(ri.self)}))

\* two elites are taken from three individuals whose fittest came last
C3_Witness ==
    /\ reproduce_returned
    /\ len(ri.self) = 3
    /\ ri.elite_size = 2
    /\ fitness_of(ri.self[1]) < fitness_of(ri.self[3])
    /\ fitness_of(ri.self[2]) < fitness_of(ri.self[3])

\* C8: when total_mean is 0 (every individual has fitness zero),
\* reproduce_global gives every niche the share target_total_size /
\* num_niches, whatever its size, and runs reproduce_into on that share.
C8_EqualSplit ==
    rg.total_mean = RInt(0) =>
        /\ \A i \in 1 .. Len(rg.shares) : rg.shares[i] = Rat(pop_size, rg.num_niches)
        /\ pc = "reproduce_into" /\ rg.active =>
              ri.new_pop_size = Rat(pop_size, rg.num_niches)

\* two niches of sizes 2 and 1, all of fitness zero, have each got half
C8_Witness ==
    /\ rg.lens = << 2, 1 >>
    /\ rg.means = << RInt(0), RInt(0) >>
    /\ pop_size = 2
    /\ rg.shares = << RInt(1), RInt(1) >>

RECURSIVE RSum(_)
RSum(xs) == IF xs = << >> THEN RInt(0) ELSE RAdd(Head(xs), RSum(Tail(xs)))

\* a niche of one individual of fitness f
scenario_niche(f) == from_individual(Individual(0, 0, Some(f)))

\* C9: when total_mean > 0, reproduce_global allots each niche the share
\* target_total_size * mean_fitness(niche) / total_mean, where total_mean is
\* the sum of the niches' mean fitnesses, so that the shares sum to
\* target_total_size; mean fitnesses [10, 0, 0] and target 100 give the
\* shares [100, 0, 0] (a fact of the operators alone, evaluated in the
\* initial states).
C9_ProportionalShares ==
    /\ RLess(RInt(0), rg.total_mean) =>
          /\ \A i \in 1 .. Len(rg.shares) :
                rg.shares[i] = RDiv(RMul(RInt(pop_size), rg.means[i]), rg.total_mean)
          /\ pc = "reproduce_into" /\ rg.active =>
                ri.new_pop_size = rg.shares[Len(rg.shares)]
          /\ Len(rg.shares) = rg.num_niches =>
                /\ RSum(rg.means) = rg.total_mean
                /\ RSum(rg.shares) = RInt(pop_size)
    /\ pc = "unrated" =>
          LET ns == << scenario_niche(10), scenario_niche(0), scenario_niche(0) >>
          IN  [i \in 1 .. 3 |->
                  niche_size_of(100, percentage_of_population(ns[i], total_mean_of(ns), 3))]
                = << RInt(100), RInt(0), RInt(0) >>

\* three niches, only the first of positive mean fitness: the first has got
\* the whole target
C9_Witness ==
    /\ Len(rg.means) = 3
    /\ RLess(RInt(0), rg.means[1])
    /\ rg.means[2] = RInt(0)
    /\ rg.means[3] = RInt(0)
    /\ pop_size = 2
    /\ rg.shares = << RInt(2), RInt(0), RInt(0) >>

\* pop is initial_pop with the evaluator's value attached to each individual
rated_from_initial(pop) ==
    /\ len(pop) = len(initial_pop)
    /\ \A i \in 1 .. Len(pop) :
          /\ has_fitness(pop[i])
          /\ pop[i].genome = initial_pop[i].genome
          /\ pop[i].id = initial_pop[i].id
          /\ fitness_of(pop[i]) = fitness[initial_pop[i].genome]

\* C10: rate_seq and rate_par return a population of the size of their input
\* in which every individual has the fitness the evaluator gives its genome.
C10_RatedEveryIndividual ==
    /\ pc \in {"rate_seq", "rate_par"} /\ rate_todo = {} => rated_from_initial(unrated)
    /\ pc = "rated" => rated_from_initial(rated)

\* rate_par has visited three individuals of three different fitnesses
C10_Witness ==
    /\ pc = "rate_par"
    /\ rate_todo = {}
    /\ len(unrated) = 3
    /\ Cardinality({ unrated[i].fitness : i \in 1 .. 3 }) = 3

\* run is between a goal check that failed and the next goal check
in_generation ==
    \/ pc \in {"run_body", "partition", "reproduce_global", "reproduce_into"}
    \/ pc = "rate_par" /\ run.stage = "offspring"

\* C4: run rates the initial population before the first goal check,
\* evaluates the goal once per generation index 0, 1, 2, ... in increasing
\* order, before that generation's partition and reproduction, and returns
\* the first time it holds, with the number of completed cycles and the
\* population the goal was just evaluated on.
C4_GoalCheckedOncePerGeneration ==
    run.active =>
        LET n == Len(run.checks)
        IN  /\ \A i \in 1 .. n : run.checks[i].iteration = i - 1
            /\ \A i \in 1 .. n - 1 : ~ run.checks[i].result
            /\ run.cycles = run.iteration
            /\ pc = "run" \/ (pc = "rate_par" /\ run.stage = "initial") => n = 0
            /\ pc = "run_while" =>
                  /\ n = run.iteration
                  /\ \A i \in 1 .. Len(rated) : has_fitness(rated[i])
                  /\ run.iteration = 0 => rated_from_initial(rated)
            /\ in_generation => n = run.iteration + 1 /\ ~ run.checks[n].result
            /\ pc = "run_returned" =>
                  /\ n = run.iteration + 1
                  /\ run.checks[n].result
                  /\ goal_condition(goal, run.iteration, rated,
                                    run.last_number_of_niches)

\* run has returned after one cycle, the goal having failed at generation 0
C4_Witness ==
    /\ pc = "run_returned"
    /\ run.iteration = 1
    /\ run.cycles = 1
    /\ Len(run.checks) = 2
    /\ goal.kind = "fitness"

\* C5 as stated: no generation of run aborts, whatever the initial
\* population.
C5_NoGenerationAborts == run.active => pc # "panic"

\* the preconditions of reproduce_global that the caller of run controls
run_preconditions ==
    /\ initial_pop # << >>
    /\ \A g \in Genomes : fitness[g] >= 0
    /\ RLeq(elite_percentage, selection_percentage)

\* C5, amended: for a non-empty initial population, an evaluator that is
\* never negative and elite_percentage <= selection_percentage, no
\* generation aborts or stalls the loop: as the goal predicate becomes true,
\* run returns.
C5_ReturnsUnderPreconditions ==
    run_preconditions /\ run.active =>
        [](pc # "panic") /\ <>(pc = "run_returned")

\* run has returned after a whole generation, its preconditions holding
C5_Witness ==
    /\ run_preconditions
    /\ pc = "run_returned"
    /\ run.cycles >= 1
    /\ Len(initial_pop) = 2

\* C11: for a pure evaluator, rate_par under every interleaving of its
\* workers produces the Rated population rate_seq produces on the same input:
\* while it runs, every individual is in its position, exactly once, with the
\* fitness rate_seq gives it if a worker has visited it and none otherwise;
\* what rate_par and rate_seq return is rate_seq(input).
C11_RateParAsRateSeq ==
    /\ pc = "rate_par" /\ ~ run.active =>
          /\ Len(unrated) = Len(initial_pop)
          /\ \A i \in 1 .. Len(unrated) :
                /\ occurrences(unrated, initial_pop[i].id) = 1
                /\ unrated[i] = IF i \in rate_todo
                                THEN initial_pop[i]
                                ELSE rate_seq(initial_pop, fitness)[i]
    /\ pc = "rated" => rated = rate_seq(initial_pop, fitness)

\* the workers of rate_par have visited the second and the third of three
\* individuals, of different fitness, before the first
C11_Witness ==
    /\ pc = "rate_par"
    /\ Len(unrated) = 3
    /\ rate_todo = {1}
    /\ fitness_of(unrated[2]) # fitness_of(unrated[3])

\* the index in pop of the individual named id
index_of(pop, id) == CHOOSE i \in 1 .. Len(pop) : pop[i].id = id

\* sorted holds the individuals of pop, each once and unchanged, by
\* non-increasing fitness, the equally fit ones in the order they have in pop
stably_sorted(pop, sorted) ==
    /\ Len(sorted) = Len(pop)
    /\ \A i \in 1 .. Len(pop) :
          member(sorted, pop[i]) /\ occurrences(sorted, pop[i].id) = 1
    /\ \A i, j \in 1 .. Len(sorted) :
          i < j =>
            /\ fitness_of(sorted[i]) >= fitness_of(sorted[j])
            /\ fitness_of(sorted[i]) = fitness_of(sorted[j]) =>
                  index_of(pop, sorted[i].id) < index_of(pop, sorted[j].id)

\* best_individual of sorted is an individual of pop that none is fitter than
best_is_maximum(pop, sorted) ==
    IF Len(pop) = 0
    THEN best_individual(sorted) = << >>
    ELSE /\ Len(best_individual(sorted)) = 1
         /\ member(pop, best_individual(sorted)[1])
         /\ \A i \in 1 .. Len(pop) :
               fitness_of(pop[i]) <= fitness_of(best_individual(sorted)[1])

\* five individuals of fitness 5, 3, 3, 1, 0
sort_scenario ==
    << Individual(1, 0, Some(5)), Individual(2, 1, Some(3)),
       Individual(3, 2, Some(3)), Individual(4, 1, Some(1)),
       Individual(5, 0, Some(0)) >>

\* C12: sort returns the same individuals by non-increasing fitness and keeps
\* the relative order of equally fit ones, so best_individual of the sorted
\* population has the maximum fitness; fitness [5,3,3,1,0] stays in that
\* order and its best is the fitness-5 individual.
C12_SortStableDescending ==
    /\ ri.active =>
          /\ ri.sorted_pop = sort(ri.self)
          /\ stably_sorted(ri.self, ri.sorted_pop)
          /\ best_is_maximum(ri.self, ri.sorted_pop)
    /\ pc = "unrated" =>
          /\ sort(sort_scenario) = sort_scenario
          /\ best_individual(sort(sort_scenario)) = << sort_scenario[1] >>

\* reproduce_into has sorted three individuals of which the first is the
\* least fit and the other two are equally fit
C12_Witness ==
    /\ ri.active
    /\ Len(ri.self) = 3
    /\ fitness_of(ri.self[1]) < fitness_of(ri.self[2])
    /\ fitness_of(ri.self[2]) = fitness_of(ri.self[3])
    /\ ri.sorted_pop = << ri.self[2], ri.self[3], ri.self[1] >>

\* C13: every niche built by from_population, from_individual, add_individual,
\* partition and add_niche holds at least one individual: the niches of a
\* Niches, while partition fills them and afterwards, and the niches
\* reproduce_global still has to visit.
C13_NoEmptyNiche ==
    /\ \A k \in 1 .. Len(niches) : niche_len(niches[k]) > 0
    /\ \A k \in 1 .. Len(rg.iter) : niche_len(rg.iter[k]) > 0
    /\ panic = "from_population: pop.len() > 0" => niches = << >>

\* partition has returned two niches, the first made by from_individual and
\* grown by add_individual, the second made by from_individual and add_niche
C13_Witness ==
    /\ pc = "niches"
    /\ partition_self # << >>
    /\ Len(niches) = 2
    /\ niche_len(niches[1]) = 2
    /\ niche_len(niches[2]) = 1

\* every individual of pop has a fitness
all_rated(pop) == \A i \in 1 .. Len(pop) : has_fitness(pop[i])

\* no individual of pop has a fitness
none_rated(pop) == \A i \in 1 .. Len(pop) : ~ has_fitness(pop[i])

\* C14: in every state Runner::run reaches, every individual of a Rated or
\* RatedSorted population (current_rated_pop, the population partition
\* iterates, the input and the sorted population of reproduce_into, the
\* new_rated_population) and of every niche has a fitness, and every
\* individual of the Unrated populations (initial_pop before it is rated, the
\* offspring of reproduce_global) has none; under rate_par exactly the
\* individuals a worker has visited have one.
C14_TypestateMatchesFitness ==
    /\ all_rated(rated)
    /\ all_rated(part_iter)
    /\ \A k \in 1 .. Len(niches) : all_rated(niches[k].population)
    /\ \A k \in 1 .. Len(rg.iter) : all_rated(rg.iter[k].population)
    /\ all_rated(ri.self)
    /\ all_rated(ri.sorted_pop)
    /\ all_rated(new_rated_population)
    /\ none_rated(new_unrated_population)
    /\ pc = "run" => none_rated(unrated)
    /\ pc = "rate_par" =>
          \A i \in 1 .. Len(unrated) : has_fitness(unrated[i]) <=> i \notin rate_todo

\* Runner::run has returned after one generation: current_rated_pop holds
\* elites of the initial population and offspring rated and appended
C14_Witness ==
    /\ pc = "run_returned"
    /\ run.iteration = 1
    /\ \E i, j \in 1 .. Len(rated) :
          /\ member(initial_pop, [rated[i] EXCEPT !.fitness = None])
          /\ ~ member(initial_pop, [rated[j] EXCEPT !.fitness = None])
          /\ rated[j].id > Len(initial_pop)

\* a step taken on a Niches value: a call of reproduce_global or of collapse
\* that goes on only when its assertions hold, and an abort that returns no
\* population
fails_fast ==
    /\ pc # "panic"
    /\ pc = "niches" /\ pc' = "reproduce_global" =>
          /\ Len(niches) > 0
          /\ total_individuals > 0
          /\ RLeq(elite_percentage', selection_percentage')
          /\ RLeq(RInt(0), total_mean_of(niches))
    /\ pc = "niches" /\ pc' = "collapsed" => Len(niches) > 0
    /\ pc \in {"niches", "reproduce_global"} /\ pc' = "panic" =>
          /\ rated' = rated
          /\ new_rated_population' = new_rated_population
          /\ new_unrated_population' = new_unrated_population
          /\ pc = "niches" =>
                new_rated_population = << >> /\ new_unrated_population = << >>

\* C15: reproduce_global goes past its entry only with at least one niche, at
\* least one tracked individual, elite_percentage <= selection_percentage and
\* a total mean fitness >= 0, and collapse only with at least one niche;
\* otherwise the call aborts: no population is returned or changed, and
\* nothing runs after the abort.
C15_FailFast == [][fails_fast]_vars

\* reproduce_global has aborted on a negative total mean fitness, and
\* returned nothing
C15_Witness ==
    /\ pc = "panic"
    /\ panic = "reproduce_global: total_mean.get() >= 0.0"
    /\ Len(niches) > 0
    /\ new_rated_population = << >>
    /\ new_unrated_population = << >>

\* what a step took from outside the program state: the individual a worker
\* of rate_par was scheduled on, the representatives rng.choose picked, the
\* sizes the three probabilistic_round draws gave, the parents gen_range
\* picked and the genomes Mate::mate returned
draws_taken ==
    << rate_todo, last_find, ri.elite_size, ri.offspring_size, ri.select_size,
       last_mate,
       [i \in 1 .. Len(new_unrated_population) |-> new_unrated_population[i].genome] >>

\* no other step of Runner::run from the same state with the same draws and
\* the same schedule ends in a different state
same_draws_same_result ==
    \A result \in { vars' } : \A taken \in { draws_taken' } :
        ~ ENABLED (RunNext /\ draws_taken' = taken /\ vars' # result)

\* pop before any of its individuals was rated
before_rating(pop) == [i \in 1 .. Len(pop) |-> [pop[i] EXCEPT !.fitness = None]]

\* under rate_par the population depends on which individuals the workers
\* have visited, not on the order they were visited in, and the rating steps
\* leave everything a draw decides as it was
schedule_free_rating ==
    pc = "rate_par" =>
      /\ unrated =
            [i \in 1 .. Len(unrated) |->
                IF i \in rate_todo
                THEN before_rating(unrated)[i]
                ELSE rate_seq(before_rating(unrated), fitness)[i]]
      /\ pc' = "rate_par" =>
            UNCHANGED << last_find, ri, last_mate, new_unrated_population, niches >>

\* C16: two executions of Runner::run from the same input, parameters and
\* pure functions that take the same random draws produce identical results:
\* every step's outcome is determined by the state it starts in and the draws
\* it takes, and the outcome of rate_par does not depend on how its workers
\* are scheduled; rating takes no draw.
C16_SameDrawsSameResult == [][same_draws_same_result /\ schedule_free_rating]_vars

\* Runner::run rates the offspring of a generation, made with draws of
\* partition, probabilistic_round and create_single_offspring, and a worker
\* of rate_par has visited the second offspring before the first
C16_Witness ==
    /\ pc = "rate_par"
    /\ run.stage = "offspring"
    /\ Len(unrated) >= 2
    /\ rate_todo = {1}
    /\ unrated[1].genome # unrated[2].genome

\* n is x rounded down or up
rounded(n, x) == n = Trunc(x) \/ n = Ceil(x)

\* C17: reproduce returns exactly offspring_size offspring, offspring_size
\* being target * (1 - elite_percentage) rounded down or up, whenever
\* select_size, the smaller of len and target * selection_percentage rounded,
\* is greater than 0, and none when select_size is 0; no offspring has a
\* fitness. While the offspring loop runs it has made at most offspring_size.
C17_OffspringCount ==
    /\ ri.active => ri.made <= ri.offspring_size
    /\ pc = "pair" /\ rg = NoRg =>
          /\ rounded(ri.offspring_size,
                     RMul(ri.new_pop_size, Inv(elite_percentage)))
          /\ \E n \in 0 .. Ceil(ri.new_pop_size) :
                /\ rounded(n, RMul(ri.new_pop_size, selection_percentage))
                /\ ri.select_size = Min({len(ri.self), n})
          /\ len(new_unrated_population) =
                IF ri.select_size > 0 THEN ri.offspring_size ELSE 0
          /\ none_rated(new_unrated_population)

\* reproduce has returned two offspring, selected from a single parent
C17_Witness ==
    /\ pc = "pair" /\ rg = NoRg
    /\ ri.select_size = 1
    /\ ri.offspring_size = 2
    /\ len(new_unrated_population) = 2

\* reproduce has returned no offspring although offspring_size is 2: the
\* population it was called on is empty, so select_size is 0
C17_WitnessNoSelection ==
    /\ pc = "pair" /\ rg = NoRg
    /\ ri.select_size = 0
    /\ ri.offspring_size = 2
    /\ len(new_unrated_population) = 0

\* C18: every call of Mate::mate by create_single_offspring passes two
\* parents from the top select_size individuals of the sorted population,
\* the first's index <= the second's and so its fitness >= the second's, and
\* the self-mate flag exactly when the indices are equal; the second index
\* was redrawn at most 3 times, exactly 3 times when the call is a self-mate;
\* with select_size = 1 the call is on index 0 twice with the flag set.
C18_MateArguments ==
    pc = "reproduce_into" /\ ri.made > 0 =>
      /\ 0 <= last_mate.parent1
      /\ last_mate.parent1 <= last_mate.parent2
      /\ last_mate.parent2 < ri.select_size
      /\ ri.select_size <= len(ri.sorted_pop)
      /\ fitness_of(ri.sorted_pop[last_mate.parent1 + 1]) >=
            fitness_of(ri.sorted_pop[last_mate.parent2 + 1])
      /\ last_mate.self_mate <=> last_mate.parent1 = last_mate.parent2
      /\ last_mate.redraws \in 0 .. 3
      /\ last_mate.self_mate => last_mate.redraws = 3
      /\ ri.select_size = 1 =>
            /\ last_mate.parent1 = 0 /\ last_mate.parent2 = 0
            /\ last_mate.self_mate

\* create_single_offspring has redrawn the second parent twice and called
\* Mate::mate on the best and the second best individual, the best one fitter
C18_Witness ==
    /\ pc = "reproduce_into" /\ ri.made > 0
    /\ ri.select_size >= 2
    /\ last_mate = [parent1 |-> 0, parent2 |-> 1, self_mate |-> FALSE, redraws |-> 2]
    /\ fitness_of(ri.sorted_pop[1]) > fitness_of(ri.sorted_pop[2])

\* create_single_offspring has called Mate::mate on the only selected
\* individual twice, after three redraws
C18_WitnessSelfMate ==
    /\ pc = "reproduce_into" /\ ri.made > 0
    /\ ri.select_size = 1
    /\ last_mate = [parent1 |-> 0, parent2 |-> 0, self_mate |-> TRUE, redraws |-> 3]

\* the individuals of the sequence pop
individuals_of(pop) == { pop[i] : i \in 1 .. Len(pop) }

\* every individual a population or a niche of the program holds
held ==
    UNION ({ individuals_of(rated), individuals_of(unrated), individuals_of(part_iter),
             individuals_of(ri.sorted_pop), individuals_of(new_rated_population),
             individuals_of(new_unrated_population) }
           \cup { individuals_of(niches[k].population) : k \in 1 .. Len(niches) }
           \cup { individuals_of(rg.iter[k].population) : k \in 1 .. Len(rg.iter) })

\* a step from a state holding the individuals `before` to one holding
\* `after` keeps the genome and the fitness of every individual that has a
\* fitness and is still held; an individual gains a fitness only in a step
\* of rate_seq / rate_par, by the evaluator applied to its genome, and every
\* such step rates one individual that had none; a new individual has a
\* fresh name and no fitness
fitness_kept(before, after) ==
    /\ \A ind \in before : has_fitness(ind) =>
          \A a \in after : a.id = ind.id => a = ind
    /\ \A a \in after : has_fitness(a) /\ a \notin before =>
          /\ pc \in {"rate_seq", "rate_par"}
          /\ [a EXCEPT !.fitness = None] \in before
          /\ a.fitness = Some(fitness[a.genome])
    /\ pc \in {"rate_seq", "rate_par"} /\ pc' = pc =>
          \E i \in rate_todo :
              /\ ~ has_fitness(unrated[i])
              /\ rate_todo' = rate_todo \ {i}
              /\ unrated' = rate_one(unrated, i, fitness)
    /\ \A a \in after : (\A ind \in before : ind.id # a.id) =>
          /\ ~ has_fitness(a)
          /\ a.id = next_id
          /\ next_id' = next_id + 1

\* sort, merge, append, partition and collapse move individuals without
\* changing one: what reproduce_into sorted and merged, what run appended,
\* what partition put into niches and what collapse returned was held before
moved_unchanged(before) ==
    /\ pc = "reproduce_into" /\ pc' # "panic" =>
          individuals_of(ri.sorted_pop') \cup individuals_of(new_rated_population')
              \subseteq before
    /\ pc = "rate_par" /\ pc' = "run_while" => individuals_of(rated') = before
    /\ pc = "partition" => individuals_of(all_individuals(niches', 1)) \subseteq before
    /\ pc' = "collapsed" =>
          individuals_of(rated') = before /\ Len(rated') = Cardinality(before)

\* C19: an individual that has a fitness is never cleared or evaluated
\* again: across Runner::run and the library calls every step keeps the
\* genome and fitness of the rated individuals it keeps (the elites among
\* them), the evaluator is applied only by rate_seq / rate_par and only to
\* an individual without a fitness, once, after which Runner::run holds no
\* unrated individual; sort, merge, append, partition and collapse leave
\* every individual as it was.
C19_FitnessNeverChanges ==
    [][/\ \A before \in { held } :
            /\ moved_unchanged(before)
            /\ \A after \in { held' } : fitness_kept(before, after)
       /\ pc' \in {"run_while", "run_returned"} => all_rated(rated')]_vars

\* Runner::run has appended rated offspring to the elites of the initial
\* population, which still have the fitness of their first rating
C19_Witness ==
    /\ pc = "run_while"
    /\ run.iteration = 1
    /\ \E i, j \in 1 .. Len(rated) :
          /\ member(rate_seq(initial_pop, fitness), rated[i])
          /\ rated[j].id > Len(initial_pop)
          /\ fitness_of(rated[i]) # fitness_of(rated[j])

\* the greatest integer <= x and the least integer >= x, for x >= 0
floor_of(x) == CHOOSE n \in 0 .. x[1] : n * x[2] <= x[1] /\ x[1] < (n + 1) * x[2]

ceil_of(x) == CHOOSE n \in 0 .. x[1] : (n - 1) * x[2] < x[1] /\ x[1] <= n * x[2]

\* arguments num >= 0 of probabilistic_round
RoundInputs == { Rat(n, d) : n \in 0 .. MaxNum, d \in 1 .. MaxNum }

\* r is x rounded with the draw p: floor(x) + 1 exactly when p < x - floor(x),
\* floor(x) otherwise, which is floor(x) or ceil(x) and x itself if x is whole
rounds_to_neighbour(x, p, r) ==
    /\ r \in {floor_of(x), ceil_of(x)}
    /\ r = floor_of(x) + 1 <=> RLess(RAdd(p, RInt(floor_of(x))), x)
    /\ r = floor_of(x) <=> ~ RLess(RAdd(p, RInt(floor_of(x))), x)
    /\ x[2] = 1 => r = x[1]

\* C20: for every x >= 0 and draw p in [0, 1), probabilistic_round(x, p) is
\* trunc(x) + 1 exactly when p < fract(x) and trunc(x) otherwise, so floor(x)
\* or ceil(x), and a whole x comes back unchanged; the offspring_size
\* reproduce_into computes with it is its argument rounded down or up.
C20_RoundsToNeighbour ==
    /\ pc = "unrated" =>
          \A x \in RoundInputs, p \in Draws :
              rounds_to_neighbour(x, p, probabilistic_round(x, p))
    /\ ri.active =>
          \E p \in Draws :
              rounds_to_neighbour(RMul(ri.new_pop_size, Inv(elite_percentage)), p,
                                  ri.offspring_size)

\* reproduce_into has rounded 1 * (1 - 1/2) up to an offspring_size of 1
C20_Witness ==
    /\ ri.active
    /\ ri.new_pop_size = RInt(1)
    /\ elite_percentage = Rat(1, 2)
    /\ ri.offspring_size = 1

\* the rated individuals Runner::run carries towards the next goal check:
\* current_rated_pop, what partition still iterates, the niches, the niches
\* reproduce_global still has to visit, the sorted niche reproduce_into works
\* on, and the new_rated_population
carried ==
    UNION ({ individuals_of(rated), individuals_of(part_iter),
             individuals_of(new_rated_population),
             IF ri.active THEN individuals_of(ri.sorted_pop) ELSE {} }
           \cup { individuals_of(niches[k].population) : k \in 1 .. Len(niches) }
           \cup { individuals_of(rg.iter[k].population) : k \in 1 .. Len(rg.iter) })

\* a fittest individual of `before` is in `after` unchanged, and so no
\* individual of `before` is fitter than every one of `after`
best_kept(before, after) ==
    before # {} =>
        \E best \in before :
            /\ \A ind \in before : fitness_of(ind) <= fitness_of(best)
            /\ best \in after

\* C21 (elitism): across Runner::run the maximum fitness of the current Rated
\* population never decreases from one goal check to the next: no step of a
\* generation (partition, reproduce_global niche by niche, rating and
\* appending the offspring) loses every fittest individual of those carried
\* towards the next goal check, and at a goal check the carried individuals
\* are those of current_rated_pop.
C21_BestNeverDecreases ==
    [][/\ \A before \in { carried } : \A after \in { carried' } : best_kept(before, after)
       /\ pc' = "run_while" => carried' = individuals_of(rated')]_vars

\* the second goal check of Runner::run is due: the fittest individual of
\* the initial population is in current_rated_pop next to a less fit
\* offspring, and a less fit individual of the initial population is not
C21_Witness ==
    /\ pc = "run_while"
    /\ run.iteration = 1
    /\ \E i, j \in 1 .. Len(rated) :
          /\ rated[i].id <= Len(initial_pop)
          /\ rated[j].id > Len(initial_pop)
          /\ fitness_of(rated[j]) < fitness_of(rated[i])
          /\ \A k \in 1 .. Len(rated) : fitness_of(rated[k]) <= fitness_of(rated[i])
    /\ \E k \in 1 .. Len(initial_pop) :
          \A i \in 1 .. Len(rated) : rated[i].id # initial_pop[k].id

\* the initial population given to run is not empty and the evaluator is
\* never negative
nonempty_nonnegative ==
    /\ initial_pop # << >>
    /\ \A g \in Genomes : fitness[g] >= 0

\* the assertions C22 is about
entry_assertions ==
    { "reproduce_global: self.num_individuals() > 0",
      "reproduce_global: self.num_niches() > 0",
      "reproduce_global: percentage_of_population in [0, 1]",
      "create_single_offspring: select_size <= self.len()" }

\* C22: if the initial population given to Runner::run is not empty and no
\* fitness is negative, then at every goal check current_rated_pop is not
\* empty and holds at least as many individuals as the last partition had
\* niches, and in no generation does an assertion at the entry of
\* reproduce_global (a niche, an individual, the share within [0,1]) or of
\* create_single_offspring (0 < select_size <= len) fail; reproduce_into
\* calls create_single_offspring only with such a select_size.
C22_AssertionsNeverFail ==
    run.active /\ nonempty_nonnegative =>
      /\ pc \in {"run_while", "run_body", "run_returned"} =>
            /\ rated # << >>
            /\ Len(rated) >= run.last_number_of_niches
      /\ panic \notin entry_assertions
      /\ pc = "reproduce_global" => Len(rg.iter) + Len(new_rated_population) >= rg.num_niches
      /\ pc = "reproduce_into" =>
            /\ ri.select_size <= len(ri.sorted_pop)
            /\ ri.made > 0 => ri.select_size > 0

\* run is at its second goal check, no fitness negative: the last partition
\* had two niches, reproduce_global took an elite from each and rated
\* offspring were appended
C22_Witness ==
    /\ nonempty_nonnegative
    /\ pc = "run_while"
    /\ run.iteration = 1
    /\ run.last_number_of_niches = 2
    /\ Len(rated) > 2

====
